---- MODULE Spec2Model ----
(***************************************************************************)
(* A model of vmsim.py: the two-process virtual memory simulator with the  *)
(* LRU and OPT page replacement algorithms.                                *)
(*                                                                         *)
(* A command line (algorithm, numframes, pagesize, memorysplit) and the    *)
(* content of the trace file are the inputs.  The program parses the       *)
(* arguments, splits the frames between two page tables and replays the    *)
(* trace, one line per loop iteration.  An uncaught Python exception ends  *)
(* the run: pc = "error" and err names the exception.                      *)
(***************************************************************************)
EXTENDS Integers, Sequences, FiniteSets, TLC

VARIABLES
    args,             \* the parsed command line (argparse namespace)
    tracefile,        \* the lines of the trace file, each a sequence of fields
    pc,               \* position of the main program
    err,              \* the uncaught exception that ended the run, or "none"
    offset,           \* self.offset
    tables,           \* the two page_table objects made by split_memory
    i,                \* index of the line the current loop works on
    memory_accesses,  \* self.memory_accesses
    page_faults,      \* self.page_faults
    disk_writes,      \* self.disk_writes
    hist              \* history: per process references, faults, evictions, disk writes,
                      \* insertion lines; the last reference

vars == <<args, tracefile, pc, err, offset, tables, i,
          memory_accesses, page_faults, disk_writes, hist>>

-----------------------------------------------------------------------------
(* Bounds of the model *)

MaxFrames == 3
MaxLen == 2
MaxLongLen == 6
MaxWriteLen == 4

-----------------------------------------------------------------------------
(* Python values *)

None == -1

\* sys.maxsize; the largest integer of the checker stands for 2^63 - 1, and like
\* it is above every line number
maxsize == 2147483647

HexDigits == <<"0","1","2","3","4","5","6","7","8","9","a","b","c","d","e","f">>

DecDigits == <<"0","1","2","3","4","5","6","7","8","9">>

\* the value of every character of the digit table ds: its position minus one
ValueTable(ds) ==
    [c \in {ds[k] : k \in 1..Len(ds)} |-> (CHOOSE k \in 1..Len(ds) : ds[k] = c) - 1]

UpperHexDigits == <<"A", "B", "C", "D", "E", "F">>

\* int(s, 16) reads the letters in either case
HexValues ==
    ValueTable(HexDigits) @@
    [c \in {UpperHexDigits[k] : k \in 1..Len(UpperHexDigits)} |->
        9 + CHOOSE k \in 1..Len(UpperHexDigits) : UpperHexDigits[k] = c]

DecValues == ValueTable(DecDigits)

\* the value of character c in a table of digit values; None if it is no digit
DigitVal(c, values) == IF c \in DOMAIN values THEN values[c] ELSE None

RECURSIVE Pow2(_)
Pow2(n) == IF n = 0 THEN 1 ELSE 2 * Pow2(n - 1)

\* int(math.log2(n)) for n > 0
RECURSIVE Log2(_)
Log2(n) == IF n <= 1 THEN 0 ELSE 1 + Log2(n \div 2)

\* int(s, 16) for a string of plain digits (no sign, prefix, blank or
\* underscore, which no address of the model has); None stands for ValueError
RECURSIVE HexInt(_)
HexInt(s) ==
    IF Len(s) = 0 THEN None
    ELSE LET d == DigitVal(s[Len(s)], HexValues) IN
         IF d = None THEN None
         ELSE IF Len(s) = 1 THEN d
         ELSE LET r == HexInt(SubSeq(s, 1, Len(s) - 1)) IN
              IF r = None THEN None ELSE 16 * r + d

\* int(c) for a one-character string; None stands for ValueError
DecInt(c) == DigitVal(c, DecValues)

RECURSIVE Reverse(_)
Reverse(s) == IF Len(s) = 0 THEN <<>> ELSE Append(Reverse(Tail(s)), Head(s))

SeqsUpTo(S, n) == UNION {[1..k -> S] : k \in 0..n}

-----------------------------------------------------------------------------
(* The inputs: command lines and trace files *)

Algorithms == {"lru", "opt"}

\* "-s a:b": the first and the third character are the two shares
Split(a, b) == <<DecDigits[a + 1], ":", DecDigits[b + 1]>>

ValidSplits == {Split(1, 1), Split(1, 0), Split(2, 1)}

ValidConfigs ==
    [algorithm : Algorithms, numframes : 1..MaxFrames,
     pagesize : {1, 2}, memorysplit : ValidSplits]

\* the fields of a trace line: the access type, the address, the process
OpFields == {<<"l">>, <<"s">>}
AddrFields == {<<"0">>, <<"8", "0", "0">>}
PidFields == {<<"0">>, <<"1">>}

Lines == {<<op, a, p>> : op \in OpFields, a \in AddrFields, p \in PidFields}

\* loads of process 0 over three pages
LongLines == {<<<<"l">>, a, <<"0">>>> : a \in AddrFields \cup {<<"4", "0", "0">>}}

\* process 0 owns both frames
LongConfigs ==
    [algorithm : Algorithms, numframes : {2},
     pagesize : {1}, memorysplit : {Split(1, 0)}]

\* loads and stores of process 0 over two pages
WriteLines == {<<op, a, <<"0">>>> : op \in OpFields, a \in AddrFields}

\* process 0 owns the one frame
WriteConfigs ==
    [algorithm : Algorithms, numframes : {1},
     pagesize : {1}, memorysplit : {Split(1, 0)}]

\* command lines the specification calls invalid, among valid ones
AnyConfigs ==
    [algorithm : Algorithms, numframes : {-1, 0, 1, 2},
     pagesize : {-2, 0, 1, 2, 3}, memorysplit : {Split(1, 1), Split(0, 0)}]

\* malformed lines: one field, two fields, an address that is not hexadecimal,
\* an empty third field, a process that is no digit, a process digit 2
BadLines ==
    { <<<<"l">>>>,
      <<<<"l">>, <<"0">>>>,
      <<<<"l">>, <<"g">>, <<"0">>>>,
      <<<<"s">>, <<"0">>, <<>>>>,
      <<<<"s">>, <<"0">>, <<"x">>>>,
      <<<<"l">>, <<"8", "0", "0">>, <<"2">>>> }

ParseConfigs ==
    [algorithm : Algorithms, numframes : {1, 2},
     pagesize : {1}, memorysplit : {Split(1, 1)}]

-----------------------------------------------------------------------------
(* page_table *)

\* page_table(frames): frames is the product ratio * self.frames, kept as the
\* exact fraction num / den (the float product is exact for these sizes)
page_table(num, den) ==
    [frames |-> [num |-> num, den |-> den], entries |-> <<>>, freq |-> <<>>]

\* a table taken for full one entry early
isFullOneEarly(t) == (Len(t.entries) + 1) * t.frames.den = t.frames.num

\* len(self.entries) == self.frames
isFull(t) == Len(t.entries) * t.frames.den = t.frames.num

\* entries is a dict {page: [dirty bit, line number]}, kept in insertion order
Keys(entries) == {entries[k].key : k \in 1..Len(entries)}

Entry(entries, key) ==
    entries[CHOOSE k \in 1..Len(entries) : entries[k].key = key]

\* entries[key] = [dirty, line]: a key already there keeps its place
SetEntry(entries, key, dirty, line) ==
    LET e == [key |-> key, dirty |-> dirty, line |-> line] IN
    IF key \in Keys(entries)
    THEN [k \in 1..Len(entries) |-> IF entries[k].key = key THEN e ELSE entries[k]]
    ELSE Append(entries, e)

\* entries.pop(key)
PopEntry(entries, key) == SelectSeq(entries, LAMBDA e : e.key # key)

-----------------------------------------------------------------------------
(* virtual_memory_sim: the pure parts *)

\* parse_args: self.offset = int(math.log2(pagesize)) + 10 when pagesize != 0;
\* math.log2 raises ValueError for a negative page size
parse_args(a) ==
    IF a.pagesize = 0 THEN [exc |-> "none", offset |-> None]
    ELSE IF a.pagesize < 0 THEN [exc |-> "ValueError", offset |-> None]
    ELSE [exc |-> "none", offset |-> Log2(a.pagesize) + 10]

\* split_memory: the two shares are memory_split[0] and memory_split[2]; the
\* test for a negative share never succeeds, as int() of one character is a
\* digit or a ValueError
split_memory(memory_split, frames) ==
    LET r1 == DecInt(memory_split[1])
        r2 == DecInt(memory_split[3])
    IN  IF r1 = None \/ r2 = None THEN [exc |-> "ValueError", tables |-> <<>>]
        ELSE IF r1 + r2 = 0 THEN [exc |-> "ZeroDivisionError", tables |-> <<>>]
        ELSE [exc |-> "none",
              tables |-> <<page_table(r1 * frames, r1 + r2),
                           page_table(r2 * frames, r1 + r2)>>]

\* parse_line with the process digit folded onto the two tables
parse_line_folded(line, off) ==
    LET bad(e) == [exc |-> e, dirty_bit |-> 0, frame |-> 0, table_idx |-> 0]
        dirty_bit == IF line[1] = <<"l">> THEN 0 ELSE 1
    IN  IF Len(line) < 2 THEN bad("IndexError")
        ELSE IF HexInt(line[2]) = None THEN bad("ValueError")
        ELSE IF off = None THEN bad("TypeError")
        ELSE IF Len(line) < 3 \/ Len(line[3]) = 0 THEN bad("IndexError")
        ELSE IF DecInt(line[3][1]) = None THEN bad("ValueError")
        ELSE [exc |-> "none", dirty_bit |-> dirty_bit,
              frame |-> HexInt(line[2]) \div Pow2(off),
              table_idx |-> DecInt(line[3][1]) % 2]

\* parse_line with every reference sent to the table of process 0
parse_line_shared(line, off) ==
    LET bad(e) == [exc |-> e, dirty_bit |-> 0, frame |-> 0, table_idx |-> 0]
        dirty_bit == IF line[1] = <<"l">> THEN 0 ELSE 1
    IN  IF Len(line) < 2 THEN bad("IndexError")
        ELSE IF HexInt(line[2]) = None THEN bad("ValueError")
        ELSE IF off = None THEN bad("TypeError")
        ELSE IF Len(line) < 3 \/ Len(line[3]) = 0 THEN bad("IndexError")
        ELSE IF DecInt(line[3][1]) = None THEN bad("ValueError")
        ELSE [exc |-> "none", dirty_bit |-> dirty_bit,
              frame |-> HexInt(line[2]) \div Pow2(off),
              table_idx |-> 0]

\* parse_line: line.split(' ') gave the fields; the results are the dirty bit,
\* the frame (the address shifted right by offset) and the table index
parse_line(line, off) ==
    LET bad(e) == [exc |-> e, dirty_bit |-> 0, frame |-> 0, table_idx |-> 0]
        dirty_bit == IF line[1] = <<"l">> THEN 0 ELSE 1
    IN  IF Len(line) < 2 THEN bad("IndexError")
        ELSE IF HexInt(line[2]) = None THEN bad("ValueError")
        ELSE IF off = None THEN bad("TypeError")
        ELSE IF Len(line) < 3 \/ Len(line[3]) = 0 THEN bad("IndexError")
        ELSE IF DecInt(line[3][1]) = None THEN bad("ValueError")
        ELSE [exc |-> "none", dirty_bit |-> dirty_bit,
              frame |-> HexInt(line[2]) \div Pow2(off),
              table_idx |-> DecInt(line[3][1])]

\* lru_sim lines 104-110: the scan for the entry with the smallest line number
RECURSIVE LruScan(_, _, _, _)
LruScan(entries, k, lru, frame_to_evict) ==
    IF k > Len(entries) THEN frame_to_evict
    ELSE IF entries[k].line < lru
         THEN LruScan(entries, k + 1, entries[k].line, entries[k].key)
         ELSE LruScan(entries, k + 1, lru, frame_to_evict)

\* the scan for the entry with the largest line number: the most recently used
RECURSIVE LruScanMost(_, _, _, _)
LruScanMost(entries, k, mru, frame_to_evict) ==
    IF k > Len(entries) THEN frame_to_evict
    ELSE IF entries[k].line > mru
         THEN LruScanMost(entries, k + 1, entries[k].line, entries[k].key)
         ELSE LruScanMost(entries, k + 1, mru, frame_to_evict)

LruVictimMost(t) == LruScanMost(t.entries, 1, -1, None)

LruVictim(t) == LruScan(t.entries, 1, maxsize, None)

\* opt_sim lines 153-167: an entry never accessed again with the smallest line
\* number, else the entry accessed furthest into the future
RECURSIVE OptScan(_, _, _, _, _)
OptScan(t, k, nxt_access, lru, frame_to_evict) ==
    IF k > Len(t.entries) THEN frame_to_evict
    ELSE LET e == t.entries[k]
             f == t.freq[e.key]
         IN  IF Len(f) = 0 /\ e.line < lru
             THEN OptScan(t, k + 1, nxt_access, e.line, e.key)
             ELSE IF lru = maxsize /\ f[Len(f)] > nxt_access
                  THEN OptScan(t, k + 1, f[Len(f)], lru, e.key)
                  ELSE OptScan(t, k + 1, nxt_access, lru, frame_to_evict)

\* the scan with the page accessed soonest taken for the one accessed furthest
RECURSIVE OptScanSoonest(_, _, _, _, _)
OptScanSoonest(t, k, nxt_access, lru, frame_to_evict) ==
    IF k > Len(t.entries) THEN frame_to_evict
    ELSE LET e == t.entries[k]
             f == t.freq[e.key]
         IN  IF Len(f) = 0 /\ e.line < lru
             THEN OptScanSoonest(t, k + 1, nxt_access, e.line, e.key)
             ELSE IF lru = maxsize /\ f[Len(f)] < nxt_access
                  THEN OptScanSoonest(t, k + 1, f[Len(f)], lru, e.key)
                  ELSE OptScanSoonest(t, k + 1, nxt_access, lru, frame_to_evict)

OptVictimSoonest(t) == OptScanSoonest(t, 1, maxsize, maxsize, None)

\* the scan with the most recently used of the pages not accessed again taken
\* for the least recently used
RECURSIVE OptScanRecent(_, _, _, _, _)
OptScanRecent(t, k, nxt_access, lru, frame_to_evict) ==
    IF k > Len(t.entries) THEN frame_to_evict
    ELSE LET e == t.entries[k]
             f == t.freq[e.key]
         IN  IF Len(f) = 0 /\ e.line > lru
             THEN OptScanRecent(t, k + 1, nxt_access, e.line, e.key)
             ELSE IF lru = -1 /\ f[Len(f)] > nxt_access
                  THEN OptScanRecent(t, k + 1, f[Len(f)], lru, e.key)
                  ELSE OptScanRecent(t, k + 1, nxt_access, lru, frame_to_evict)

OptVictimRecent(t) == OptScanRecent(t, 1, -1, -1, None)

OptVictim(t) == OptScan(t, 1, -1, maxsize, None)

\* the loop body with the page fault counted only when nothing is evicted
AccessFaultUncounted(t, victim, dirty_bit, frame, line) ==
    IF frame \notin Keys(t.entries)
    THEN IF isFull(t)
         THEN IF victim = None
              THEN [exc |-> "KeyError", entries |-> t.entries, fault |-> 0,
                    evicted |-> None, write |-> 0]
              ELSE [exc |-> "none",
                    entries |-> SetEntry(PopEntry(t.entries, victim),
                                         frame, dirty_bit, line),
                    fault |-> 0, evicted |-> victim,
                    write |-> IF Entry(t.entries, victim).dirty = 1 THEN 1 ELSE 0]
         ELSE [exc |-> "none",
               entries |-> SetEntry(t.entries, frame, dirty_bit, line),
               fault |-> 1, evicted |-> None, write |-> 0]
    ELSE [exc |-> "none",
          entries |-> SetEntry(t.entries, frame,
                        IF Entry(t.entries, frame).dirty = 1 \/ dirty_bit = 1
                        THEN 1 ELSE 0, line),
          fault |-> 0, evicted |-> None, write |-> 0]

\* the body of the simulation loop once the line is parsed (lru_sim lines
\* 100-123, opt_sim lines 149-182 without the freq bookkeeping): the new
\* entries, whether the access was a page fault, the evicted frame, whether it
\* was written to disk, and the exception raised (entries[None] is a KeyError)
\* the access with a hit that stores the dirty bit of the line alone
AccessHitOverwrites(t, victim, dirty_bit, frame, line) ==
    IF frame \notin Keys(t.entries)
    THEN IF isFull(t)
         THEN IF victim = None
              THEN [exc |-> "KeyError", entries |-> t.entries, fault |-> 1,
                    evicted |-> None, write |-> 0]
              ELSE [exc |-> "none",
                    entries |-> SetEntry(PopEntry(t.entries, victim),
                                         frame, dirty_bit, line),
                    fault |-> 1, evicted |-> victim,
                    write |-> IF Entry(t.entries, victim).dirty = 1 THEN 1 ELSE 0]
         ELSE [exc |-> "none",
               entries |-> SetEntry(t.entries, frame, dirty_bit, line),
               fault |-> 1, evicted |-> None, write |-> 0]
    ELSE [exc |-> "none",
          entries |-> SetEntry(t.entries, frame,
                        dirty_bit, line),
          fault |-> 0, evicted |-> None, write |-> 0]

\* the access with a disk write counted for every eviction
AccessWriteAlways(t, victim, dirty_bit, frame, line) ==
    IF frame \notin Keys(t.entries)
    THEN IF isFull(t)
         THEN IF victim = None
              THEN [exc |-> "KeyError", entries |-> t.entries, fault |-> 1,
                    evicted |-> None, write |-> 0]
              ELSE [exc |-> "none",
                    entries |-> SetEntry(PopEntry(t.entries, victim),
                                         frame, dirty_bit, line),
                    fault |-> 1, evicted |-> victim,
                    write |-> 1]
         ELSE [exc |-> "none",
               entries |-> SetEntry(t.entries, frame, dirty_bit, line),
               fault |-> 1, evicted |-> None, write |-> 0]
    ELSE [exc |-> "none",
          entries |-> SetEntry(t.entries, frame,
                        IF Entry(t.entries, frame).dirty = 1 \/ dirty_bit = 1
                        THEN 1 ELSE 0, line),
          fault |-> 0, evicted |-> None, write |-> 0]

\* the access with a hit counted as a page fault
AccessHitFaults(t, victim, dirty_bit, frame, line) ==
    IF frame \notin Keys(t.entries)
    THEN IF isFull(t)
         THEN IF victim = None
              THEN [exc |-> "KeyError", entries |-> t.entries, fault |-> 1,
                    evicted |-> None, write |-> 0]
              ELSE [exc |-> "none",
                    entries |-> SetEntry(PopEntry(t.entries, victim),
                                         frame, dirty_bit, line),
                    fault |-> 1, evicted |-> victim,
                    write |-> IF Entry(t.entries, victim).dirty = 1 THEN 1 ELSE 0]
         ELSE [exc |-> "none",
               entries |-> SetEntry(t.entries, frame, dirty_bit, line),
               fault |-> 1, evicted |-> None, write |-> 0]
    ELSE [exc |-> "none",
          entries |-> SetEntry(t.entries, frame,
                        IF Entry(t.entries, frame).dirty = 1 \/ dirty_bit = 1
                        THEN 1 ELSE 0, line),
          fault |-> 1, evicted |-> None, write |-> 0]

Access(t, victim, dirty_bit, frame, line) ==
    IF frame \notin Keys(t.entries)
    THEN IF isFull(t)
         THEN IF victim = None
              THEN [exc |-> "KeyError", entries |-> t.entries, fault |-> 1,
                    evicted |-> None, write |-> 0]
              ELSE [exc |-> "none",
                    entries |-> SetEntry(PopEntry(t.entries, victim),
                                         frame, dirty_bit, line),
                    fault |-> 1, evicted |-> victim,
                    write |-> IF Entry(t.entries, victim).dirty = 1 THEN 1 ELSE 0]
         ELSE [exc |-> "none",
               entries |-> SetEntry(t.entries, frame, dirty_bit, line),
               fault |-> 1, evicted |-> None, write |-> 0]
    ELSE [exc |-> "none",
          entries |-> SetEntry(t.entries, frame,
                        IF Entry(t.entries, frame).dirty = 1 \/ dirty_bit = 1
                        THEN 1 ELSE 0, line),
          fault |-> 0, evicted |-> None, write |-> 0]

\* freq[frame].pop()
PopFreq(freq, frame) ==
    [freq EXCEPT ![frame] = SubSeq(@, 1, Len(@) - 1)]

\* opt_sim lines 133-136: the first pass records line i under its frame
LoadFreq(freq, frame, line) ==
    IF frame \notin DOMAIN freq
    THEN freq @@ (frame :> <<line>>)
    ELSE [freq EXCEPT ![frame] = Append(@, line)]

\* the freq lists left in file order
ReverseFreqForgotten(freq) == freq

\* opt_sim lines 141-143
ReverseFreq(freq) == [key \in DOMAIN freq |-> Reverse(freq[key])]

-----------------------------------------------------------------------------
(* The program *)

\* since: per process the pairs <<frame, line>> of the line at which the frame
\* was last inserted; outcome: line by line 1 for a miss and 0 for a hit;
\* last: the reference the loop completed last
NoHist == [refs |-> <<0, 0>>, faults |-> <<0, 0>>,
           evictions |-> <<0, 0>>, writes |-> <<0, 0>>,
           since |-> <<{}, {}>>, outcome |-> <<>>,
           last |-> [p |-> None, frame |-> None, fault |-> 0, evicted |-> None]]

InitWith(configs, traces) ==
    /\ args \in configs
    /\ tracefile \in traces
    /\ pc = "idle"
    /\ err = "none"
    /\ offset = None
    /\ tables = <<>>
    /\ i = 0
    /\ memory_accesses = 0
    /\ page_faults = 0
    /\ disk_writes = 0
    /\ hist = NoHist

Raise(e) == pc' = "error" /\ err' = e

\* vm_sim.parse_args()
ParseArgs ==
    /\ pc = "idle"
    /\ LET r == parse_args(args) IN
       /\ offset' = r.offset
       /\ IF r.exc # "none" THEN Raise(r.exc)
          ELSE pc' = "parsed" /\ err' = err
    /\ UNCHANGED <<args, tracefile, tables, i, memory_accesses, page_faults,
                   disk_writes, hist>>

\* run_sim: lru_sim and opt_sim both start with tables = self.split_memory()
SplitMemory ==
    /\ pc = "parsed"
    /\ LET r == split_memory(args.memorysplit, args.numframes) IN
       /\ tables' = r.tables
       /\ IF r.exc # "none" THEN Raise(r.exc)
          ELSE /\ pc' = IF args.algorithm = "opt" THEN "load" ELSE "running"
               /\ err' = err
    /\ UNCHANGED <<args, tracefile, offset, i, memory_accesses, page_faults,
                   disk_writes, hist>>

\* the first pass counting its lines as memory accesses too
OptLoadCounted ==
    /\ pc = "load"
    /\ i < Len(tracefile)
    /\ memory_accesses' = memory_accesses + 1
    /\ LET r == parse_line(tracefile[i + 1], offset) IN
       IF r.exc # "none"
       THEN Raise(r.exc) /\ UNCHANGED <<tables, i>>
       ELSE IF r.table_idx >= Len(tables)
       THEN Raise("IndexError") /\ UNCHANGED <<tables, i>>
       ELSE /\ tables' = [tables EXCEPT ![r.table_idx + 1].freq =
                              LoadFreq(@, r.frame, i)]
            /\ i' = i + 1
            /\ UNCHANGED <<pc, err>>
    /\ UNCHANGED <<args, tracefile, offset, page_faults, disk_writes, hist>>

\* opt_sim, first pass: one line of the trace file goes into the freq map
OptLoad ==
    /\ pc = "load"
    /\ i < Len(tracefile)
    /\ LET r == parse_line(tracefile[i + 1], offset) IN
       IF r.exc # "none"
       THEN Raise(r.exc) /\ UNCHANGED <<tables, i>>
       ELSE IF r.table_idx >= Len(tables)
       THEN Raise("IndexError") /\ UNCHANGED <<tables, i>>
       ELSE /\ tables' = [tables EXCEPT ![r.table_idx + 1].freq =
                              LoadFreq(@, r.frame, i)]
            /\ i' = i + 1
            /\ UNCHANGED <<pc, err>>
    /\ UNCHANGED <<args, tracefile, offset, memory_accesses, page_faults,
                   disk_writes, hist>>

\* opt_sim, between the passes: every freq list is reversed
OptReverse ==
    /\ pc = "load"
    /\ i = Len(tracefile)
    /\ tables' = [k \in 1..Len(tables) |->
                     [tables[k] EXCEPT !.freq = ReverseFreq(@)]]
    /\ i' = 0
    /\ pc' = "running"
    /\ UNCHANGED <<args, tracefile, err, offset, memory_accesses, page_faults,
                   disk_writes, hist>>

Bump(pair, idx, n) == [pair EXCEPT ![idx + 1] = @ + n]

\* one iteration of the simulation loop of lru_sim (opt = FALSE) or of the
\* second pass of opt_sim (opt = TRUE)
SimStep(opt) ==
    /\ pc = "running"
    /\ i < Len(tracefile)
    /\ memory_accesses' = memory_accesses + 1
    /\ LET r == parse_line(tracefile[i + 1], offset) IN
       IF r.exc # "none"
       THEN /\ Raise(r.exc)
            /\ UNCHANGED <<tables, i, page_faults, disk_writes, hist>>
       ELSE IF r.table_idx >= Len(tables)
       THEN /\ Raise("IndexError")
            /\ UNCHANGED <<tables, i, page_faults, disk_writes, hist>>
       ELSE LET t == tables[r.table_idx + 1]
                victim == IF opt THEN OptVictim(t) ELSE LruVictim(t)
                a == Access(t, victim, r.dirty_bit, r.frame, i)
            IN  /\ page_faults' = page_faults + a.fault
                /\ IF a.exc # "none"
                   THEN /\ Raise(a.exc)
                        /\ UNCHANGED <<tables, i, disk_writes>>
                        /\ hist' = [hist EXCEPT
                               !.refs = Bump(@, r.table_idx, 1),
                               !.faults = Bump(@, r.table_idx, a.fault)]
                   ELSE /\ disk_writes' = disk_writes + a.write
                        /\ tables' = [tables EXCEPT ![r.table_idx + 1] =
                               [t EXCEPT !.entries = a.entries,
                                         !.freq = IF opt THEN PopFreq(@, r.frame)
                                                  ELSE @]]
                        /\ i' = i + 1
                        /\ hist' = [hist EXCEPT
                               !.refs = Bump(@, r.table_idx, 1),
                               !.faults = Bump(@, r.table_idx, a.fault),
                               !.evictions = Bump(@, r.table_idx,
                                   IF a.evicted = None THEN 0 ELSE 1),
                               !.writes = Bump(@, r.table_idx, a.write),
                               !.since[r.table_idx + 1] =
                                   IF a.fault = 1
                                   THEN {s \in @ : s[1] # r.frame}
                                            \cup {<<r.frame, i>>}
                                   ELSE @,
                               !.outcome = Append(@, a.fault),
                               !.last = [p |-> r.table_idx, frame |-> r.frame,
                                         fault |-> a.fault,
                                         evicted |-> a.evicted]]
                        /\ UNCHANGED <<pc, err>>
    /\ UNCHANGED <<args, tracefile, offset>>

LruStep == args.algorithm = "lru" /\ SimStep(FALSE)

OptStep == args.algorithm = "opt" /\ SimStep(TRUE)

\* the loop is over: run_sim returns and vm_sim.print_results() reports
PrintResults ==
    /\ pc = "running"
    /\ i = Len(tracefile)
    /\ pc' = "done"
    /\ UNCHANGED <<args, tracefile, err, offset, tables, i, memory_accesses,
                   page_faults, disk_writes, hist>>

Next ==
    \/ ParseArgs
    \/ SplitMemory
    \/ OptLoad
    \/ OptReverse
    \/ LruStep
    \/ OptStep
    \/ PrintResults

\* valid command lines; well-formed traces
Init ==
    \/ InitWith(ValidConfigs, SeqsUpTo(Lines, MaxLen))
    \/ InitWith(LongConfigs, SeqsUpTo(LongLines, MaxLongLen))
    \/ InitWith(WriteConfigs, SeqsUpTo(WriteLines, MaxWriteLen))

Spec == Init /\ [][Next]_vars

\* any command line; well-formed traces
InitConfig == InitWith(AnyConfigs, SeqsUpTo(Lines, MaxLen))

SpecConfig == InitConfig /\ [][Next]_vars

\* valid command lines; traces with malformed lines
InitParse == InitWith(ParseConfigs, SeqsUpTo(Lines \cup BadLines, MaxLen))

SpecParse == InitParse /\ [][Next]_vars

\* scenarios A and B of the specification: process 0 loads from the pages
\* 0, 1, 0, 2, 0, 1, 2 (1 KB pages) with two frames
ScenarioPages == <<<<"0">>, <<"4", "0", "0">>, <<"0">>, <<"8", "0", "0">>,
                   <<"0">>, <<"4", "0", "0">>, <<"8", "0", "0">>>>

ScenarioTrace == [k \in 1..Len(ScenarioPages) |-> <<<<"l">>, ScenarioPages[k], <<"0">>>>]

\* the runs of Spec and the scenario trace under both algorithms
InitScenario == Init \/ InitWith(LongConfigs, {ScenarioTrace})

SpecScenario == InitScenario /\ [][Next]_vars

-----------------------------------------------------------------------------
(* What the claims speak about *)

Procs == {0, 1}

\* the tables exist once split_memory has returned them
Split_done == Len(tables) = 2

\* every line of the trace file as parse_line reads it
Parsed == [k \in 1..Len(tracefile) |-> parse_line(tracefile[k], offset)]

\* the 1-based positions of the well-formed lines of process p
LinesOf(p) ==
    LET parsed == Parsed IN
    {k \in 1..Len(tracefile) :
        parsed[k].exc = "none" /\ parsed[k].table_idx = p}

\* the distinct frames process p references in the whole trace
FramesOf(p) ==
    LET parsed == Parsed IN
    {parsed[k].frame :
        k \in {n \in 1..Len(tracefile) :
                  parsed[n].exc = "none" /\ parsed[n].table_idx = p}}

Resident(p) == Len(tables[p + 1].entries)

-----------------------------------------------------------------------------
(* C1: in every reachable state each table holds at most as many resident     *)
(* entries as its capacity, the share ratio * frames it was built with, also  *)
(* when that share is not an integer.  The code compares the number of        *)
(* entries with the share for equality only, so a table with a fractional     *)
(* share is never full and grows past it.                                     *)
C1_ResidentWithinCapacity ==
    Split_done =>
        \A p \in Procs :
            Resident(p) * tables[p + 1].frames.den <= tables[p + 1].frames.num

\* lru_sim run on the same trace file with the same tables, from line k on:
\* the page_faults it ends with
RECURSIVE LruFaults(_, _, _)
LruFaults(tbls, k, faults) ==
    IF k = Len(tracefile) THEN faults
    ELSE LET r == parse_line(tracefile[k + 1], offset) IN
         IF r.exc # "none" \/ r.table_idx >= Len(tbls) THEN faults
         ELSE LET t == tbls[r.table_idx + 1]
                  a == Access(t, LruVictim(t), r.dirty_bit, r.frame, k)
              IN  IF a.exc # "none" THEN faults + a.fault
                  ELSE LruFaults([tbls EXCEPT ![r.table_idx + 1].entries = a.entries],
                                 k + 1, faults + a.fault)

LruPageFaults ==
    LruFaults(split_memory(args.memorysplit, args.numframes).tables, 0, 0)

(* C2: Belady optimality: when opt_sim has finished a trace, its page_faults  *)
(* is at most the page_faults lru_sim ends with on the same trace file with   *)
(* the same frames and split.                                                 *)
C2_OptFaultsAtMostLru ==
    (args.algorithm = "opt" /\ pc = "done") => page_faults <= LruPageFaults

\* opt_sim finished with strictly fewer page faults than lru_sim
C2_Witness ==
    /\ args.algorithm = "opt"
    /\ pc = "done"
    /\ page_faults < LruPageFaults

(* C3: a table of capacity 0 faults on every reference of its process, evicts *)
(* the entry it just inserted, and the run goes on to the end of the trace,   *)
(* where the faults of that process equal its references.  The code finds     *)
(* the empty table full, finds no victim and fails with a KeyError.           *)
C3_ZeroCapacityFaultsAndContinues ==
    Split_done =>
        \A p \in Procs :
            tables[p + 1].frames.num = 0 =>
                /\ pc # "error"
                /\ Resident(p) = 0
                /\ hist.faults[p + 1] = hist.refs[p + 1]
                /\ hist.evictions[p + 1] = hist.refs[p + 1]
                /\ (pc = "done" => hist.faults[p + 1] = Cardinality(LinesOf(p)))

(* C4: the capacity split_memory gives a table is the integer                 *)
(* floor(frame_total * r_i / (r0 + r1)), and the two capacities sum to at     *)
(* most frame_total.  The code hands the untruncated product to page_table.   *)
C4_CapacityIsFloor ==
    Split_done =>
        /\ \A p \in Procs :
              LET f == tables[p + 1].frames IN
              /\ f.num >= 0
              /\ f.num = f.den * (f.num \div f.den)
        /\ tables[1].frames.num + tables[2].frames.num
              <= args.numframes * tables[1].frames.den

(* C5: a process whose table capacity is at least the number of distinct      *)
(* frames it references never has an entry evicted, adds nothing to           *)
(* disk_writes, and at the end has faulted exactly once per distinct frame.   *)
C5_RoomForAllMeansCompulsoryOnly ==
    Split_done =>
        \A p \in Procs :
            \/ /\ hist.evictions[p + 1] = 0
               /\ hist.writes[p + 1] = 0
               /\ (pc = "done" => hist.faults[p + 1] = Cardinality(FramesOf(p)))
            \/ Cardinality(FramesOf(p)) * tables[p + 1].frames.den
                   > tables[p + 1].frames.num

\* process 0 had room for its two frames, hit one of them again and is done
C5_Witness ==
    /\ pc = "done"
    /\ Cardinality(FramesOf(0)) = 2
    /\ 2 * tables[1].frames.den <= tables[1].frames.num
    /\ hist.refs[1] > 2
    /\ hist.faults[1] = 2

(* C6: when the run of a well-formed trace of N lines is done,               *)
(* memory_accesses is N, for lru_sim and for opt_sim (whose first pass does  *)
(* not count).                                                                *)
C6_AccessesEqualLines == pc = "done" => memory_accesses = Len(tracefile)

\* opt_sim is done with a trace of at least two lines
C6_Witness ==
    /\ pc = "done"
    /\ args.algorithm = "opt"
    /\ Len(tracefile) >= 2
    /\ memory_accesses = Len(tracefile)

(* C7: in every reachable state 0 <= disk_writes <= page_faults <=           *)
(* memory_accesses, and no step decreases any of the three counters.         *)
C7_CountersOrdered ==
    /\ 0 <= disk_writes
    /\ disk_writes <= page_faults
    /\ page_faults <= memory_accesses

C7_CountersOrderedAndMonotone ==
    /\ []C7_CountersOrdered
    /\ [][/\ memory_accesses' >= memory_accesses
          /\ page_faults' >= page_faults
          /\ disk_writes' >= disk_writes]_vars

\* a dirty page was written to disk and some access was a hit
C7_Witness ==
    /\ disk_writes >= 1
    /\ disk_writes < page_faults
    /\ page_faults < memory_accesses

\* the configurations the specification rejects
PowerOfTwo(n) == n > 0 /\ Pow2(Log2(n)) = n

InvalidConfig ==
    \/ ~PowerOfTwo(args.pagesize)
    \/ args.numframes <= 0
    \/ (DecInt(args.memorysplit[1]) = 0 /\ DecInt(args.memorysplit[3]) = 0)

(* C8: with an invalid configuration (a page size that is no positive power  *)
(* of two, a frame total that is not positive, a split of two zeros) the run *)
(* ends in an error before the simulation starts: no line is processed and   *)
(* memory_accesses stays 0.  The code checks none of these: a page size of 3 *)
(* runs to the end, and a frame total of 0 fails only at the first line.     *)
C8_InvalidConfigNeverRuns ==
    InvalidConfig =>
        /\ pc \in {"idle", "parsed", "error"}
        /\ memory_accesses = 0
        /\ i = 0

\* a malformed line, told from its text: fewer than three fields, an address
\* that is not a hexadecimal number, or a process that is not the digit 0 or 1
Malformed(line) ==
    \/ Len(line) < 3
    \/ line[2] = <<>>
    \/ \E n \in 1..Len(line[2]) : line[2][n] \notin DOMAIN HexValues
    \/ line[3] = <<>>
    \/ line[3][1] \notin {"0", "1"}

\* the first malformed line of the trace file (1-based), 0 if there is none
FirstBad ==
    LET bad == {k \in 1..Len(tracefile) : Malformed(tracefile[k])}
    IN  IF bad = {} THEN 0 ELSE CHOOSE k \in bad : \A n \in bad : k <= n

\* the line numbers the tables hold: of the entries and in the freq lists
LinesHeld ==
    UNION {{tables[k].entries[n].line : n \in 1..Len(tables[k].entries)}
              : k \in 1..Len(tables)}
    \cup UNION {UNION {{tables[k].freq[f][n] : n \in 1..Len(tables[k].freq[f])}
                          : f \in DOMAIN tables[k].freq}
                   : k \in 1..Len(tables)}

\* line number i (0-based) is the first malformed line
AtFirstBad == pc \in {"load", "running"} /\ FirstBad = i + 1

(* C9: a malformed line (fewer than three fields, an address that is not     *)
(* hexadecimal, a process digit other than 0 or 1) aborts the run at that    *)
(* line: the line reaches no table, no later line is processed, and the run  *)
(* is never done.                                                             *)
C9_NothingPastMalformedLine ==
    (pc # "idle" /\ FirstBad # 0) =>
        /\ pc # "done"
        /\ i < FirstBad
        /\ \A n \in LinesHeld : n < FirstBad - 1
        /\ hist.refs[1] + hist.refs[2] < FirstBad

C9_MalformedLineAborts ==
    /\ []C9_NothingPastMalformedLine
    /\ [][AtFirstBad => (pc' = "error" /\ tables' = tables /\ i' = i)]_vars

\* the run failed at a malformed line after a well-formed first line
C9_Witness ==
    /\ pc = "error"
    /\ FirstBad = 2
    /\ i = 1
    /\ err \in {"IndexError", "ValueError"}
    /\ hist.refs[1] + hist.refs[2] = 1

(* C10: with a valid configuration, also one whose split gives a process a   *)
(* zero or a fractional share, and a well-formed trace the run never stops   *)
(* in an error.  The code fails with a KeyError at the first reference of a  *)
(* process whose share is zero (see C3).                                     *)
C10_ValidRunNeverFails == pc # "error" /\ err = "none"

-----------------------------------------------------------------------------
(* The steps of the simulation loop, as the claims speak of them *)

\* the simulation loop is about to work on line i
Stepping == pc = "running" /\ i < Len(tracefile)

\* the line the loop is about to work on, as parse_line reads it
Cur == parse_line(tracefile[i + 1], offset)

\* table p holds as many entries as its capacity
Full(p) == Resident(p) * tables[p + 1].frames.den = tables[p + 1].frames.num

\* the frames that leave table p in this step
Evicted(p) == Keys(tables[p + 1].entries) \ Keys(tables'[p + 1].entries)

\* the step about to be taken is a page fault of process p
FaultOf(p) ==
    Stepping /\ Cur.table_idx = p /\ Cur.frame \notin Keys(tables[p + 1].entries)

\* the number of the given line numbers that are already worked on
Before(positions) == Cardinality({k \in positions : k < i})

\* the run of a scenario: its trace, the algorithm, two frames for process 0
Scenario(alg) ==
    /\ tracefile = ScenarioTrace
    /\ args.algorithm = alg
    /\ pc \in {"running", "done"}
    /\ tables[1].frames.num = 2 * tables[1].frames.den

(* C12: in lru_sim a fault in a full table of capacity >= 1 evicts the       *)
(* resident frame of that process with the smallest line number, the least   *)
(* recently used; with two frames and the pages 0,1,0,2,0,1,2 loaded by one  *)
(* process the faults are at the lines 0,1,3,5,6 and the run ends with 7     *)
(* accesses, 5 page faults and no disk write.                                *)
C12_LruStep ==
    \A p \in Procs :
        (args.algorithm = "lru" /\ FaultOf(p) /\ Full(p) /\ Resident(p) >= 1) =>
            /\ Cardinality(Evicted(p)) = 1
            /\ \A key \in Evicted(p) :
                  \A k \in 1..Resident(p) :
                      Entry(tables[p + 1].entries, key).line
                          <= tables[p + 1].entries[k].line

C12_ScenarioA ==
    Scenario("lru") =>
        /\ page_faults = Before({0, 1, 3, 5, 6})
        /\ memory_accesses = i
        /\ disk_writes = 0
        /\ (pc = "done" =>
               memory_accesses = 7 /\ page_faults = 5 /\ disk_writes = 0)

C12_LruEvictsLeastRecent == []C12_ScenarioA /\ [][C12_LruStep]_vars

\* scenario A is done
C12_Witness == Scenario("lru") /\ pc = "done" /\ page_faults = 5

\* the future list of frame key in table p is empty: no later reference
Unused(p, key) == tables[p + 1].freq[key] = <<>>

\* the next line that references frame key of table p
NextUse(p, key) == tables[p + 1].freq[key][Len(tables[p + 1].freq[key])]

\* the orders in which a scan may meet the entries of a table
Orders(entries) ==
    {[k \in 1..Len(entries) |-> entries[s[k]]] :
        s \in {f \in [1..Len(entries) -> 1..Len(entries)] :
                  \A a, b \in 1..Len(entries) : a # b => f[a] # f[b]}}

(* C13: in opt_sim, at a fault in a full table where some resident frame has *)
(* an empty future list, the frame that is evicted has an empty future list  *)
(* and the smallest line number among the resident frames with an empty      *)
(* list; the scan chooses the same frame in whatever order it meets the      *)
(* entries.                                                                  *)
C13_OptStep ==
    \A p \in Procs :
        (/\ args.algorithm = "opt" /\ FaultOf(p) /\ Full(p)
         /\ \E key \in Keys(tables[p + 1].entries) : Unused(p, key)) =>
            /\ Cardinality(Evicted(p)) = 1
            /\ \A key \in Evicted(p) :
                  /\ Unused(p, key)
                  /\ \A k \in 1..Resident(p) :
                        Unused(p, tables[p + 1].entries[k].key) =>
                            Entry(tables[p + 1].entries, key).line
                                <= tables[p + 1].entries[k].line

C13_ScanOrder ==
    \A p \in Procs :
        (/\ args.algorithm = "opt" /\ pc = "running" /\ Full(p)
         /\ \E key \in Keys(tables[p + 1].entries) : Unused(p, key)) =>
            \A entries \in Orders(tables[p + 1].entries) :
                OptVictim([tables[p + 1] EXCEPT !.entries = entries])
                    = OptVictim(tables[p + 1])

C13_OptEvictsUnusedLeastRecent == []C13_ScanOrder /\ [][C13_OptStep]_vars

\* the last fault evicted a frame that is not referenced again while another
\* resident frame is
C13_Witness ==
    /\ args.algorithm = "opt"
    /\ pc = "running"
    /\ hist.last.evicted # None
    /\ Unused(hist.last.p, hist.last.evicted)
    /\ \E key \in Keys(tables[hist.last.p + 1].entries) :
          key # hist.last.frame /\ ~Unused(hist.last.p, key)

(* C14: in opt_sim, at a fault in a full table where every resident frame    *)
(* has a future reference, the frame that is evicted is the one whose next   *)
(* reference is the latest; with two frames and the pages 0,1,0,2,0,1,2      *)
(* loaded by one process the faults are at the lines 0,1,3,5 and the run     *)
(* ends with 7 accesses, 4 page faults and no disk write.                    *)
C14_OptStep ==
    \A p \in Procs :
        (/\ args.algorithm = "opt" /\ FaultOf(p) /\ Full(p) /\ Resident(p) >= 1
         /\ \A key \in Keys(tables[p + 1].entries) : ~Unused(p, key)) =>
            /\ Cardinality(Evicted(p)) = 1
            /\ \A key \in Evicted(p) :
                  \A other \in Keys(tables[p + 1].entries) :
                      NextUse(p, key) >= NextUse(p, other)

C14_ScenarioB ==
    Scenario("opt") =>
        /\ page_faults = Before({0, 1, 3, 5})
        /\ memory_accesses = i
        /\ disk_writes = 0
        /\ (pc = "done" =>
               memory_accesses = 7 /\ page_faults = 4 /\ disk_writes = 0)

C14_OptEvictsFurthest == []C14_ScenarioB /\ [][C14_OptStep]_vars

\* scenario B is done after its two evictions, the first of them (line 3) among
\* frames that all have a future reference
C14_Witness ==
    /\ Scenario("opt") /\ pc = "done" /\ page_faults = 4
    /\ hist.evictions[1] = 2

\* the line at which frame key of table p was inserted last
Since(p, key) == (CHOOSE s \in hist.since[p + 1] : s[1] = key)[2]

\* line n of the trace is a store of process p to frame key
StoreTo(n, p, key) ==
    /\ tracefile[n + 1][1] = <<"s">>
    /\ parse_line(tracefile[n + 1], offset).table_idx = p
    /\ parse_line(tracefile[n + 1], offset).frame = key

(* C15: the dirty bit of a resident entry is 1 exactly when the process has  *)
(* stored to that frame at some line since the frame last became resident:   *)
(* the faulting access and the hits after it count, stores before an         *)
(* eviction do not.                                                          *)
C15_DirtyIffStoredSinceResident ==
    \A p \in Procs :
        (Split_done /\ Resident(p) > 0) =>
            \A k \in 1..Resident(p) :
                LET e == tables[p + 1].entries[k] IN
                    /\ e.dirty \in {0, 1}
                    /\ e.dirty = 1 <=>
                          \E n \in Since(p, e.key)..(i - 1) : StoreTo(n, p, e.key)

\* a frame stored to, evicted, loaded again and then stored to by a hit
C15_Witness ==
    /\ Split_done
    /\ pc = "done"
    /\ \E k \in 1..Resident(0) :
          LET e == tables[1].entries[k] IN
              /\ e.dirty = 1
              /\ ~StoreTo(Since(0, e.key), 0, e.key)
              /\ \E n \in 0..(Since(0, e.key) - 1) : StoreTo(n, 0, e.key)

\* the frame that line n of the trace references
FrameAt(n) == parse_line(tracefile[n + 1], offset).frame

\* scenario D: every line is a store of process 0, neighbouring lines reference
\* distinct frames out of two, and process 0 has one frame
AllWritesAlternating ==
    /\ Split_done
    /\ tables[1].frames.num = tables[1].frames.den
    /\ Len(tracefile) >= 2
    /\ \A n \in 1..Len(tracefile) :
          tracefile[n][1] = <<"s">> /\ tracefile[n][3] = <<"0">>
    /\ \A n \in 1..(Len(tracefile) - 1) : FrameAt(n - 1) # FrameAt(n)
    /\ Cardinality({FrameAt(n - 1) : n \in 1..Len(tracefile)}) = 2

(* C16: disk-write accounting is exact.  A frame leaves a table only in a    *)
(* fault step on that table when it is full; disk_writes grows by exactly 1  *)
(* in a step that evicts an entry whose dirty bit is 1 and stays as it is in *)
(* every other step, starting from 0; and at the end of an all-writes trace  *)
(* alternating between two frames of one process with one frame of memory    *)
(* disk_writes = page_faults - 1.                                            *)
C16_Step ==
    Split_done =>
        /\ \A p \in Procs : Evicted(p) # {} => (FaultOf(p) /\ Full(p))
        /\ disk_writes' = disk_writes +
              (IF \E p \in Procs : \E key \in Evicted(p) :
                      Entry(tables[p + 1].entries, key).dirty = 1
               THEN 1 ELSE 0)

C16_ScenarioD ==
    /\ ~Split_done => disk_writes = 0
    /\ Split_done => disk_writes <= hist.evictions[1] + hist.evictions[2]
    /\ (pc = "done" /\ AllWritesAlternating) => disk_writes = page_faults - 1

C16_DiskWritesExact == []C16_ScenarioD /\ [][C16_Step]_vars

\* scenario D is done with more than one dirty page written
C16_Witness ==
    pc = "done" /\ AllWritesAlternating /\ disk_writes >= 2

(* C17: a fault step on the table of process p evicts only if the table was  *)
(* full before the step, evicts at most one entry and never the faulting     *)
(* frame, and ends with the faulting frame resident with the current line    *)
(* number; a fault on a table that is not full removes nothing and the table *)
(* grows by exactly one entry.  A table of capacity 0 is full while empty:   *)
(* the scan finds no victim, entries[None] raises KeyError and the faulting  *)
(* frame is never inserted.                                                  *)
C17_Step ==
    \A p \in Procs :
        FaultOf(p) =>
            /\ Evicted(p) # {} => Full(p)
            /\ Cardinality(Evicted(p)) <= 1
            /\ Cur.frame \notin Evicted(p)
            /\ Cur.frame \in Keys(tables'[p + 1].entries)
            /\ Entry(tables'[p + 1].entries, Cur.frame).line = i
            /\ ~Full(p) =>
                  /\ Evicted(p) = {}
                  /\ Len(tables'[p + 1].entries) = Resident(p) + 1

C17_FaultInstallsFrame == [][C17_Step]_vars

\* the step about to be taken is a hit of process p
HitOf(p) ==
    Stepping /\ Cur.table_idx = p /\ Cur.frame \in Keys(tables[p + 1].entries)

(* C18: a hit leaves the resident frames of the table, page_faults and       *)
(* disk_writes as they are; it adds 1 to memory_accesses and changes only    *)
(* the dirty bit and the line number of the hit entry and, in opt_sim, the   *)
(* future list of the hit frame.                                             *)
C18_Step ==
    \A p \in Procs :
        HitOf(p) =>
            LET t == tables[p + 1]
                u == tables'[p + 1]
            IN  /\ Keys(u.entries) = Keys(t.entries)
                /\ Len(u.entries) = Len(t.entries)
                /\ page_faults' = page_faults
                /\ disk_writes' = disk_writes
                /\ memory_accesses' = memory_accesses + 1
                /\ \A key \in Keys(t.entries) \ {Cur.frame} :
                      Entry(u.entries, key) = Entry(t.entries, key)
                /\ Entry(u.entries, Cur.frame).line = i
                /\ u.frames = t.frames
                /\ DOMAIN u.freq = DOMAIN t.freq
                /\ \A key \in DOMAIN t.freq \ {Cur.frame} : u.freq[key] = t.freq[key]
                /\ args.algorithm = "lru" => u.freq = t.freq
                /\ args.algorithm = "opt" =>
                      Len(u.freq[Cur.frame]) = Len(t.freq[Cur.frame]) - 1
                /\ tables'[2 - p] = tables[2 - p]
                /\ UNCHANGED <<args, tracefile, offset, pc, err>>

C18_HitChangesOnlyItsEntry == [][C18_Step]_vars

\* the last reference of opt_sim was a hit in a table with another resident frame
C18_Witness ==
    /\ args.algorithm = "opt"
    /\ pc = "running"
    /\ hist.last.p # None
    /\ hist.last.fault = 0
    /\ Resident(hist.last.p) >= 2

\* the lines of the trace file that name process p, in their order
LinesNaming(p) == {n \in 1..Len(tracefile) : DecInt(tracefile[n][3][1]) = p}

Projection(p) == SelectSeq(tracefile, LAMBDA line : DecInt(line[3][1]) = p)

\* the misses and hits of the lines of process p in the run, in their order
OutcomesOf(p) ==
    LET RECURSIVE Pick(_, _)
        Pick(n, out) ==
            IF n > Len(hist.outcome) THEN out
            ELSE Pick(n + 1, IF n \in LinesNaming(p)
                             THEN Append(out, hist.outcome[n]) ELSE out)
    IN  Pick(1, <<>>)

\* the first pass of opt_sim over a trace, and the reversal of the lists
RECURSIVE Loaded(_, _, _)
Loaded(tbls, trace, k) ==
    IF k = Len(trace)
    THEN [n \in 1..Len(tbls) |-> [tbls[n] EXCEPT !.freq = ReverseFreq(@)]]
    ELSE LET r == parse_line(trace[k + 1], offset) IN
         Loaded([tbls EXCEPT ![r.table_idx + 1].freq = LoadFreq(@, r.frame, k)],
                trace, k + 1)

\* the simulation loop over a trace: the misses and hits line by line
RECURSIVE RunOutcomes(_, _, _, _, _)
RunOutcomes(tbls, trace, k, opt, out) ==
    IF k = Len(trace) THEN out
    ELSE LET r == parse_line(trace[k + 1], offset)
             t == tbls[r.table_idx + 1]
             victim == IF opt THEN OptVictim(t) ELSE LruVictim(t)
             a == Access(t, victim, r.dirty_bit, r.frame, k)
         IN  IF a.exc # "none" THEN out
             ELSE RunOutcomes(
                      [tbls EXCEPT ![r.table_idx + 1] =
                          [t EXCEPT !.entries = a.entries,
                                    !.freq = IF opt THEN PopFreq(@, r.frame) ELSE @]],
                      trace, k + 1, opt, Append(out, a.fault))

\* the run of the configured algorithm over a trace of its own
SoloOutcomes(trace) ==
    LET tbls == split_memory(args.memorysplit, args.numframes).tables
        opt == args.algorithm = "opt"
    IN  RunOutcomes(IF opt THEN Loaded(tbls, trace, 0) ELSE tbls, trace, 0, opt, <<>>)

(* C19: process isolation.  A step of either pass that works on a line of    *)
(* process p leaves the table of the other process as it is: its entries     *)
(* with their dirty bits and line numbers and its future lists, also when    *)
(* both processes reference the same frame number.  So the misses and hits   *)
(* of the lines of process p are the ones of a run over the lines of p       *)
(* alone.                                                                    *)
C19_Step ==
    \A p \in Procs :
        (/\ pc \in {"load", "running"} /\ i < Len(tracefile)
         /\ DecInt(tracefile[i + 1][3][1]) = p) =>
            tables'[2 - p] = tables[2 - p]

C19_Solo ==
    pc = "done" =>
        \A p \in Procs : OutcomesOf(p) = SoloOutcomes(Projection(p))

C19_ProcessIsolation == []C19_Solo /\ [][C19_Step]_vars

\* both processes have referenced the same frame number, and for the second of
\* them it was a miss while the frame is resident in the table of the first
C19_Witness ==
    /\ pc = "done"
    /\ hist.last.fault = 1
    /\ hist.last.p # None
    /\ hist.last.frame \in Keys(tables[2 - hist.last.p].entries)
    /\ hist.last.frame \in Keys(tables[hist.last.p + 1].entries)

\* every line number still held in a future list of table k
Pending(k) ==
    UNION {{tables[k].freq[f][n] : n \in 1..Len(tables[k].freq[f])}
              : f \in DOMAIN tables[k].freq}

(* C20: in the simulation pass of opt_sim the line number that the step for  *)
(* line i takes off the future list of its frame is i itself: the list ends  *)
(* with i when the step begins, every other line number held in any list of  *)
(* either process is greater than i, so that the next reference used for the *)
(* choice of a victim lies in the future, and when the run is done every     *)
(* list is empty.                                                            *)
C20_FutureListsAreFuture ==
    (args.algorithm = "opt" /\ Split_done) =>
        /\ Stepping =>
              LET f == tables[Cur.table_idx + 1].freq[Cur.frame] IN
                  /\ Len(f) > 0
                  /\ f[Len(f)] = i
                  /\ \A n \in 1..(Len(f) - 1) : f[n] > i
                  /\ \A k \in 1..2 : \A line \in Pending(k) : line >= i
                  /\ \A k \in 1..2 : \A g \in DOMAIN tables[k].freq :
                        (k # Cur.table_idx + 1 \/ g # Cur.frame) =>
                            \A n \in 1..Len(tables[k].freq[g]) :
                                tables[k].freq[g][n] > i
        /\ pc = "running" => \A k \in 1..2 : \A line \in Pending(k) : line >= i
        /\ pc = "done" => \A k \in 1..2 : Pending(k) = {}

\* opt_sim is done with a trace in which a frame was referenced again
C20_Witness ==
    /\ args.algorithm = "opt"
    /\ pc = "done"
    /\ Len(tracefile) >= 3
    /\ hist.last.fault = 0
    /\ \A k \in 1..2 : Pending(k) = {}

====
